---- MODULE Spec2Model ----
(***************************************************************************)
(* A model of app.py, the Streamlit study-guide generator.                 *)
(*                                                                         *)
(* The script runs top to bottom once per user interaction.  One run is    *)
(* one step of the model (Script): it reads the widgets, stores the        *)
(* credential, reads the study material, shows the word-count advisory,    *)
(* runs the generation logic when the button was clicked and renders the   *)
(* stored study guide with its two download buttons.  st.session_state     *)
(* (study_guide, api_key) is what survives from one run to the next.       *)
(*                                                                         *)
(* Text the code inspects character by character (the study material) is   *)
(* a sequence of one-character strings; text it only passes on or          *)
(* concatenates (credential, completion, prompt lines, file names) is a    *)
(* string.  The prompt is the sequence of its lines.                       *)
(***************************************************************************)
EXTENDS Integers, Sequences, FiniteSets, TLC

VARIABLES
    study_guide,      \* st.session_state.study_guide
    api_key,          \* st.session_state.api_key
    api_key_input,    \* the credential field's value in the last run
    study_material,   \* the material the last run read (text area or upload)
    options,          \* the sidebar widgets' values in the last run
    generate_button,  \* the value st.button returned in the last run
    advisory,         \* the word-count advisory the last run showed
    error,            \* the error the last run surfaced
    prompt,           \* the prompt the last run compiled (<<>>: none)
    issued,           \* the remote requests the last run issued
    response,         \* what the remote service answered in the last run
    md_name,          \* file_name of the markdown download button
    txt_name,         \* file_name of the text download button
    clock,            \* the wall clock, in ticks
    gen_time,         \* the clock when the stored guide was generated
    num_triggers,     \* runs in which the generate button was clicked
    num_requests,     \* remote requests issued so far
    missing_seen,     \* a MissingCredential error was surfaced before the last run
    ran               \* the script has run

vars == <<study_guide, api_key, api_key_input, study_material, options,
          generate_button, advisory, error, prompt, issued, response, md_name,
          txt_name, clock, gen_time, num_triggers, num_requests, missing_seen, ran>>

(***************************************************************************)
(* Bounds of the model.                                                    *)
(***************************************************************************)
MaxTriggers == 2      \* generate clicks counted in one session
MaxClock == 3         \* last tick of the wall clock
TicksPerSecond == 2   \* clock ticks in one second of the file-name stamp
MaxPad == 1           \* whitespace characters around the material

(***************************************************************************)
(* Program constants.                                                      *)
(***************************************************************************)
MinChars == 50            \* len(study_material.strip()) < 50
ShortWords == 100         \* word_count < 100
SufficientWords == 200    \* word_count < 200
MinQuestions == 3         \* slider min_value
MaxQuestions == 20        \* slider max_value
DefaultQuestions == 10    \* slider value
MaxTokens == 8000         \* max_tokens

None == "None"            \* Python's None

(***************************************************************************)
(* Python helpers.                                                         *)
(***************************************************************************)
Range(s) == {s[i] : i \in 1..Len(s)}

\* bool(v) of a str or None: None and "" are false.
Truthy(v) == v # None /\ v # ""

Whitespace == {" ", "\n", "\t"}

\* str.lstrip(), str.rstrip(), str.strip(): whitespace is dropped from the
\* front, from the back, from both.
RECURSIVE LStrip(_)
LStrip(s) == IF s # <<>> /\ s[1] \in Whitespace THEN LStrip(Tail(s)) ELSE s

RECURSIVE RStrip(_)
RStrip(s) ==
    IF s # <<>> /\ s[Len(s)] \in Whitespace THEN RStrip(SubSeq(s, 1, Len(s) - 1)) ELSE s

Strip(s) == RStrip(LStrip(s))

\* str.split(): the maximal runs of non-whitespace characters, in order.
\* The text is split in halves; a run that crosses the middle is rejoined.
RECURSIVE Split(_)
Split(s) ==
    IF s = <<>> THEN <<>>
    ELSE IF Len(s) = 1 THEN (IF s[1] \in Whitespace THEN <<>> ELSE <<s>>)
    ELSE LET mid   == Len(s) \div 2
             left  == Split(SubSeq(s, 1, mid))
             right == Split(SubSeq(s, mid + 1, Len(s)))
         IN  IF s[mid] \notin Whitespace /\ s[mid + 1] \notin Whitespace
             THEN SubSeq(left, 1, Len(left) - 1)
                      \o <<left[Len(left)] \o right[1]>> \o Tail(right)
             ELSE left \o right

\* The lines of a text, each as one string: the pieces between its newline
\* characters.  The text is split in halves; the line that crosses the
\* middle is rejoined.
RECURSIVE Lines(_)
Lines(s) ==
    IF s = <<>> THEN <<"">>
    ELSE IF Len(s) = 1 THEN (IF s[1] = "\n" THEN <<"", "">> ELSE <<s[1]>>)
    ELSE LET mid   == Len(s) \div 2
             left  == Lines(SubSeq(s, 1, mid))
             right == Lines(SubSeq(s, mid + 1, Len(s)))
         IN  SubSeq(left, 1, Len(left) - 1)
                 \o <<left[Len(left)] \o right[1]>> \o Tail(right)

\* sep.join(parts)
RECURSIVE Join(_, _)
Join(sep, parts) ==
    IF parts = <<>> THEN ""
    ELSE IF Len(parts) = 1 THEN parts[1]
         ELSE parts[1] \o sep \o Join(sep, Tail(parts))

\* bytes.decode('utf-8') on the bytes the model uses: tab, newline, space and
\* "a" are themselves; 255 starts no UTF-8 sequence and raises.
ByteChar(b) ==
    CASE b = 9 -> "\t" [] b = 10 -> "\n" [] b = 32 -> " " [] b = 97 -> "a"

DecodeFails(bytes) == \E i \in 1..Len(bytes) : bytes[i] > 127

Decode(bytes) == [i \in 1..Len(bytes) |-> ByteChar(bytes[i])]

CharByte(c) ==
    CASE c = "\t" -> 9 [] c = "\n" -> 10 [] c = " " -> 32 [] c = "a" -> 97

Encode(s) == [i \in 1..Len(s) |-> CharByte(s[i])]
(***************************************************************************)
(* The sidebar: credential and options.                                    *)
(***************************************************************************)
\* A slip: the field's value is stored even when it is empty.
StoreApiKey_Always(widget, stored) == widget

\* if api_key: st.session_state.api_key = api_key
StoreApiKey(widget, stored) == IF Truthy(widget) THEN widget ELSE stored

Models == {"llama-3.3-70b-versatile", "llama-3.1-70b-versatile", "mixtral-8x7b-32768"}

Comprehensive == "Comprehensive (All sections)"
SummaryOnly == "Summary Only"
DefinitionsFocus == "Definitions Focus"
QuestionsFocus == "Practice Questions Focus"

GuideTypes == {Comprehensive, SummaryOnly, DefinitionsFocus, QuestionsFocus}

DetailLevels == {"Brief", "Moderate", "Detailed", "Very Detailed"}

\* The values the sidebar widgets start with.
DefaultOptions ==
    [model |-> "llama-3.3-70b-versatile", guide_type |-> Comprehensive,
     detail_level |-> "Detailed", num_questions |-> DefaultQuestions,
     include_mcq |-> TRUE, include_short |-> TRUE, include_essay |-> FALSE]

(***************************************************************************)
(* Inputs: the values the model lets the user and the service supply.      *)
(***************************************************************************)
Fill(k, c) == [i \in 1..k |-> c]

\* n words of wlen characters, single spaces between them, with lead
\* newlines in front and trail tabs behind.
Mat(lead, n, wlen, trail) ==
    Fill(lead, "\n")
    \o [i \in 1..(n * wlen + (IF n > 0 THEN n - 1 ELSE 0)) |->
            IF i % (wlen + 1) = 0 THEN " " ELSE "a"]
    \o Fill(trail, "\t")

Pads == 0..MaxPad

SessionTexts == {<<>>, Mat(MaxPad, 1, MinChars - 1, MaxPad), Mat(0, 1, MinChars, 0)}

SessionFiles == {Mat(0, 2, 3, MaxPad)}

\* Texts around the 50-character gate and around the word-count thresholds.
GateTexts ==
    {Mat(l, 0, 1, t) : l \in Pads, t \in Pads}
    \cup {Mat(l, 1, w, t) : l \in Pads, t \in Pads,
                            w \in {MinChars - 1, MinChars, MinChars + 1}}
    \cup {Mat(l, n, 1, t) : l \in Pads, t \in Pads,
                            n \in {MinChars \div 2, MinChars \div 2 + 1,
                                   ShortWords - 1, ShortWords, ShortWords + 50,
                                   SufficientWords - 1, SufficientWords,
                                   SufficientWords + 50}}

GateFiles == {Mat(0, 2, MinChars, MaxPad)}

CompileTexts == {Mat(0, 1, MinChars, 0), Mat(0, 9, 5, 0) \o <<"\n">> \o Mat(0, 9, 5, 0)}

Texts == SessionTexts \cup SessionFiles \cup GateTexts \cup GateFiles \cup CompileTexts

\* Split, Strip and Lines of every text of the model, computed once.
SplitMemo == [s \in Texts |-> Split(s)]

StripMemo == [s \in Texts |-> Strip(s)]

LinesMemo == [s \in Texts |-> Lines(s)]

(***************************************************************************)
(* The study material and its word-count advisory.                         *)
(***************************************************************************)
NoFile == <<256>>     \* uploaded_file is None (256 is no byte)

\* study_material after the two input tabs; only called when the upload,
\* if any, decodes.
ReadMaterial(text, upload) == IF upload # NoFile THEN Decode(upload) ELSE text

\* A slip: the thresholds are compared with <= instead of <.
Advisory_OffByOne(material) ==
    IF material # <<>>
    THEN LET word_count == Len(SplitMemo[material])
         IN  IF word_count <= ShortWords THEN "TooShort"
             ELSE IF word_count <= SufficientWords THEN "Short"
                  ELSE "Sufficient"
    ELSE None

\* The advisory of the Quick Tips column; nothing is shown for empty material.
Advisory(material) ==
    IF material # <<>>
    THEN LET word_count == Len(SplitMemo[material])
         IN  IF word_count < ShortWords THEN "TooShort"
             ELSE IF word_count < SufficientWords THEN "Short"
                  ELSE "Sufficient"
    ELSE None

(***************************************************************************)
(* The generation logic: gates, prompt, remote call, store.                *)
(***************************************************************************)
\* A slip: the length gate compares with <= instead of <.
Gate_OffByOne(key, material) ==
    IF ~Truthy(key) THEN "MissingCredential"
    ELSE IF ~(material # <<>>) \/ Len(StripMemo[material]) <= MinChars
         THEN "InsufficientInput"
         ELSE None

\* A slip: the credential gate is missing.
Gate_NoCredential(key, material) ==
    IF ~(material # <<>>) \/ Len(StripMemo[material]) < MinChars
    THEN "InsufficientInput"
    ELSE None

\* The two gates in front of the try block.
Gate(key, material) ==
    IF ~Truthy(key) THEN "MissingCredential"
    ELSE IF ~(material # <<>>) \/ Len(StripMemo[material]) < MinChars
         THEN "InsufficientInput"
         ELSE None

\* detail_mapping, each phrase as its first character and the rest.
detail_mapping(level) ==
    CASE level = "Brief" -> <<"c", "oncise and to-the-point">>
      [] level = "Moderate" -> <<"b", "alanced with good coverage">>
      [] level = "Detailed" -> <<"c", "omprehensive and thorough">>
      [] level = "Very Detailed" -> <<"e", "xtremely detailed with in-depth explanations">>

Phrase(p) == p[1] \o p[2]

\* str.capitalize() of a phrase that is lower case after its first character.
Capitalize(p) ==
    (CASE p[1] = "b" -> "B" [] p[1] = "c" -> "C" [] p[1] = "e" -> "E") \o p[2]

question_types(o) ==
    (IF o.include_mcq THEN <<"multiple choice questions">> ELSE <<>>)
    \o (IF o.include_short THEN <<"short answer questions">> ELSE <<>>)
    \o (IF o.include_essay THEN <<"essay questions">> ELSE <<>>)

\* A slip: no fallback phrase when no question type is enabled.
question_type_str_NoFallback(o) == Join(", ", question_types(o))

question_type_str(o) ==
    IF question_types(o) # <<>> THEN Join(", ", question_types(o))
    ELSE "practice questions"

\* The line an f-string expression {"..." if flag else ""} leaves on a line
\* of its own.
Conditional(flag, line) == IF flag THEN line ELSE ""

ComprehensiveHeader(o) ==
    "5. **PRACTICE QUESTIONS** - Create " \o ToString(o.num_questions) \o " "
        \o question_type_str(o) \o ":"

ComprehensiveMcq == "   - Multiple choice questions (with 4 options and correct answer)"
ComprehensiveShort == "   - Short answer questions"
ComprehensiveEssay == "   - Essay questions with key points to cover"

ComprehensivePrompt(material, o) ==
    << "Create a " \o Phrase(detail_mapping(o.detail_level))
           \o " study guide from the following material.",
       "",
       "STUDY MATERIAL:" >>
    \o LinesMemo[material] \o
    << "",
       "Generate a comprehensive study guide with these sections:",
       "",
       "1. **OVERVIEW** - Brief summary of the main topic and its importance",
       "",
       "2. **KEY CONCEPTS** - Main ideas explained clearly with examples where relevant",
       "",
       "3. **IMPORTANT DEFINITIONS** - Essential terms with clear, concise definitions",
       "",
       "4. **DETAILED NOTES** - " \o Capitalize(detail_mapping(o.detail_level))
           \o " explanation of the content, organized by subtopics",
       "",
       ComprehensiveHeader(o),
       Conditional(o.include_mcq, ComprehensiveMcq),
       Conditional(o.include_short, ComprehensiveShort),
       Conditional(o.include_essay, ComprehensiveEssay),
       "",
       "6. **STUDY TIPS** - Memory aids, mnemonics, and connections to help remember the material",
       "",
       "7. **SUMMARY** - Quick review of the most critical points",
       "",
       "Format everything in clear markdown with proper headers, bullet points, and emphasis where needed." >>

SummaryPrompt(material, o) ==
    << "Create a " \o Phrase(detail_mapping(o.detail_level))
           \o " summary of the following study material.",
       "",
       "STUDY MATERIAL:" >>
    \o LinesMemo[material] \o
    << "",
       "Provide:",
       "1. Main topic overview",
       "2. Key points and concepts (organized logically)",
       "3. Important takeaways",
       "4. Quick review summary",
       "",
       "Be " \o Phrase(detail_mapping(o.detail_level))
           \o " and use clear markdown formatting." >>

DefinitionsPrompt(material, o) ==
    << "Extract and explain all important terms and concepts from the following material.",
       "",
       "STUDY MATERIAL:" >>
    \o LinesMemo[material] \o
    << "",
       "Create a comprehensive definitions guide with:",
       "1. **TERM**: Clear, " \o Phrase(detail_mapping(o.detail_level)) \o " definition",
       "2. Context of how it's used",
       "3. Examples where helpful",
       "4. Related terms",
       "",
       "Organize alphabetically and use clear markdown formatting." >>

QuestionsTitle(o) ==
    "Create " \o ToString(o.num_questions)
        \o " practice questions from the following study material."

QuestionsHeader(o) == "Generate " \o question_type_str(o) \o ":"

QuestionsMcq == "- Multiple choice questions with 4 options, correct answer, and brief explanation"
QuestionsShort == "- Short answer questions with sample answers"
QuestionsEssay == "- Essay questions with key points that should be covered"

QuestionsPrompt(material, o) ==
    << QuestionsTitle(o),
       "",
       "STUDY MATERIAL:" >>
    \o LinesMemo[material] \o
    << "",
       QuestionsHeader(o),
       Conditional(o.include_mcq, QuestionsMcq),
       Conditional(o.include_short, QuestionsShort),
       Conditional(o.include_essay, QuestionsEssay),
       "",
       "Include a variety of difficulty levels and ensure questions cover all major concepts.",
       "Format with clear markdown and proper numbering." >>

\* A slip: the Definitions Focus branch is missing and falls to the else.
Prompt_NoDefinitions(material, o) ==
    IF o.guide_type = Comprehensive THEN ComprehensivePrompt(material, o)
    ELSE IF o.guide_type = SummaryOnly THEN SummaryPrompt(material, o)
         ELSE QuestionsPrompt(material, o)

\* Main prompt construction: the if / elif / elif / else on guide_type.
Prompt(material, o) ==
    IF o.guide_type = Comprehensive THEN ComprehensivePrompt(material, o)
    ELSE IF o.guide_type = SummaryOnly THEN SummaryPrompt(material, o)
         ELSE IF o.guide_type = DefinitionsFocus THEN DefinitionsPrompt(material, o)
              ELSE QuestionsPrompt(material, o)

SystemMessage == "You are an expert educational content creator who creates comprehensive, well-organized study guides. You excel at identifying key concepts, creating effective practice questions, and organizing information for optimal learning."

\* client = Groq(api_key=...); client.chat.completions.create(...)
Request(key, o, compiled) ==
    [api_key |-> key,
     messages |-> << [role |-> "system", content |-> <<SystemMessage>>],
                     [role |-> "user", content |-> compiled] >>,
     model |-> o.model,
     temperature |-> "0.7",
     max_tokens |-> MaxTokens]

\* A slip: a failed call is retried once.
Issue_Retry(key, o, compiled, resp) ==
    IF resp.kind # "ok" THEN <<Request(key, o, compiled), Request(key, o, compiled)>>
    ELSE <<Request(key, o, compiled)>>

\* The requests one pass through the try block sends: create() is called once.
Issue(key, o, compiled, resp) == <<Request(key, o, compiled)>>

\* What the try block makes of the service's answer.  The call raises on an
\* auth, quota, network or malformed-response failure; choices[0] raises on
\* an answer without choices.
Raises(resp) == resp.kind # "ok" \/ resp.choices = <<>>

\* A slip: a failed call clears the stored guide.
Store_ClearOnFailure(resp, stored) == IF Raises(resp) THEN None ELSE resp.choices[1]

\* st.session_state.study_guide after the try block.
Store(resp, stored) == IF Raises(resp) THEN stored ELSE resp.choices[1]

(***************************************************************************)
(* The download buttons.                                                   *)
(***************************************************************************)
Pad2(n) == IF n < 10 THEN "0" \o ToString(n) ELSE ToString(n)

\* datetime.strftime('%Y%m%d_%H%M%S') of the clock reading t: the ticks within
\* one second share a stamp.  The model's clock starts at 2026-11-05 00:00:00
\* and stays within its first minute.
Strftime(t) == "20261105_0000" \o Pad2(t \div TicksPerSecond)

FileName(t, suffix) == "study_guide_" \o Strftime(t) \o suffix
(***************************************************************************)
(* One run of the script.                                                  *)
(*   key_in   the credential field's value                                 *)
(*   text     the text area's value                                        *)
(*   upload   the uploaded file's bytes, or NoFile                         *)
(*   o        the option widgets' values                                   *)
(*   click    whether this run was started by the generate button          *)
(*   answers  what the remote service may answer if it is called           *)
(*   d_call, d_md, d_txt   ticks that pass before the remote call returns, *)
(*            before the first and before the second datetime.now()        *)
(***************************************************************************)
NoResponse == [kind |-> "none", choices |-> <<>>]

Crashes(upload) == upload # NoFile /\ DecodeFails(upload)

\* The LET names are bound by \E over one-element sets, so that each is
\* computed once in a run.
Script(key_in, text, upload, o, click, answers, d_call, d_md, d_txt) ==
    \E key \in {StoreApiKey(key_in, api_key)}, crashed \in {Crashes(upload)} :
    \E material \in {IF crashed THEN text ELSE ReadMaterial(text, upload)} :
    \E gate \in {Gate(key, material)} :
    \E calls \in {~crashed /\ click /\ gate = None} :
    \E compiled \in {IF calls THEN Prompt(material, o) ELSE <<>>} :
    \E resp \in (IF calls THEN answers ELSE {NoResponse}) :
    \E guide \in {IF calls THEN Store(resp, study_guide) ELSE study_guide} :
    LET t_call == clock + d_call
        t_md   == t_call + d_md
        t_txt  == t_md + d_txt
    IN  /\ t_txt <= MaxClock
        /\ click => num_triggers < MaxTriggers
        /\ api_key_input' = key_in
        /\ api_key' = key
        /\ options' = o
        /\ ran' = TRUE
        /\ missing_seen' = (missing_seen \/ error = "MissingCredential")
        /\ clock' = t_txt
        /\ study_material' = material
        /\ IF crashed
           THEN \* decode() raises in the upload tab: the run ends there
                /\ error' = "DecodeError"
                /\ generate_button' = FALSE
                /\ advisory' = None
                /\ prompt' = <<>>
                /\ issued' = <<>>
                /\ response' = NoResponse
                /\ md_name' = None
                /\ txt_name' = None
                /\ UNCHANGED <<study_guide, gen_time, num_triggers, num_requests>>
           ELSE /\ advisory' = Advisory(material)
                /\ generate_button' = click
                /\ num_triggers' = IF click THEN num_triggers + 1 ELSE num_triggers
                /\ error' = IF ~click THEN None
                            ELSE IF gate # None THEN gate
                                 ELSE IF Raises(resp) THEN "GenerationError"
                                      ELSE None
                /\ prompt' = compiled
                /\ issued' = IF calls THEN Issue(key, o, compiled, resp) ELSE <<>>
                /\ response' = IF calls THEN resp ELSE NoResponse
                /\ num_requests' = num_requests + Len(issued')
                /\ study_guide' = guide
                /\ gen_time' = IF calls /\ ~Raises(resp) THEN t_call ELSE gen_time
                /\ md_name' = IF Truthy(guide) THEN FileName(t_md, ".md") ELSE None
                /\ txt_name' = IF Truthy(guide) THEN FileName(t_txt, ".txt") ELSE None

Keys == {"k1", "k2"}

KeyInputs == {""} \cup Keys

Completions == {"", "guide1", "guide2"}

Failures == {[kind |-> k, choices |-> <<>>] : k \in {"auth", "quota", "network", "malformed"}}

\* An answer carries no, one or two completion choices.
Answers ==
    {[kind |-> "ok", choices |-> <<>>]}
    \cup {[kind |-> "ok", choices |-> <<c>>] : c \in Completions}
    \cup {[kind |-> "ok", choices |-> <<p[1], p[2]>>] :
              p \in {q \in (Completions \ {""}) \X (Completions \ {""}) : q[1] # q[2]}}

Responses == Failures \cup Answers

InvalidFile == <<255>>

OptionSets ==
    [model : Models, guide_type : GuideTypes, detail_level : DetailLevels,
     num_questions : {MinQuestions, DefaultQuestions, MaxQuestions},
     include_mcq : BOOLEAN, include_short : BOOLEAN, include_essay : BOOLEAN]

(***************************************************************************)
(* The session: any sequence of runs, from the state before the first.     *)
(* The wall clock stands still here; SpecExport lets it run.               *)
(***************************************************************************)
Init ==
    /\ study_guide = None
    /\ api_key = None
    /\ api_key_input = ""
    /\ study_material = <<>>
    /\ options = DefaultOptions
    /\ generate_button = FALSE
    /\ advisory = None
    /\ error = None
    /\ prompt = <<>>
    /\ issued = <<>>
    /\ response = NoResponse
    /\ md_name = None
    /\ txt_name = None
    /\ clock = 0
    /\ gen_time = 0
    /\ num_triggers = 0
    /\ num_requests = 0
    /\ missing_seen = FALSE
    /\ ran = FALSE

SessionUploads == {NoFile, InvalidFile} \cup {Encode(f) : f \in SessionFiles}

SessionOptions ==
    {DefaultOptions,
     [DefaultOptions EXCEPT !.guide_type = QuestionsFocus, !.model = "mixtral-8x7b-32768"]}

\* A run started by any widget other than the generate button.
Interact ==
    \E key_in \in KeyInputs, text \in SessionTexts, upload \in SessionUploads,
       o \in SessionOptions :
        Script(key_in, text, upload, o, FALSE, {}, 0, 0, 0)

\* A run started by the generate button.
Generate ==
    \E key_in \in KeyInputs, text \in SessionTexts, upload \in SessionUploads,
       o \in SessionOptions :
        Script(key_in, text, upload, o, TRUE, Responses, 0, 0, 0)

Next == Interact \/ Generate

Spec == Init /\ [][Next]_vars
(***************************************************************************)
(* The first run of a session, on texts around the 50-character gate and   *)
(* the word-count thresholds.                                              *)
(***************************************************************************)
GateUploads == {NoFile} \cup {Encode(f) : f \in GateFiles}

GateResponses == {[kind |-> "ok", choices |-> <<"guide1">>],
                  [kind |-> "network", choices |-> <<>>]}

GateRun ==
    /\ ~ran
    /\ \E key_in \in {"", "k1"}, text \in GateTexts, upload \in GateUploads,
          click \in BOOLEAN :
        Script(key_in, text, upload, DefaultOptions, click, GateResponses, 0, 0, 0)

SpecGate == Init /\ [][GateRun]_vars

(***************************************************************************)
(* The first run of a session with a credential and a click on generate,   *)
(* under every option set: the prompt compiler.                            *)
(***************************************************************************)
Compile ==
    /\ ~ran
    /\ \E text \in CompileTexts, o \in OptionSets :
        Script("k1", text, NoFile, o, TRUE,
               {[kind |-> "ok", choices |-> <<"guide1">>]}, 0, 0, 0)

SpecCompile == Init /\ [][Compile]_vars

(***************************************************************************)
(* A session with a credential and sufficient material in which the wall   *)
(* clock runs between the runs: the download buttons.  Within a run the    *)
(* remote call and the two datetime.now() calls fall in one tick.          *)
(***************************************************************************)
ExportResponses == {[kind |-> "ok", choices |-> <<"guide1">>],
                    [kind |-> "ok", choices |-> <<"guide2">>],
                    [kind |-> "ok", choices |-> <<"">>],
                    [kind |-> "quota", choices |-> <<>>]}

Rerender ==
    \E o \in SessionOptions, d_call \in 0..1 :
        Script("k1", Mat(0, 1, MinChars, 0), NoFile, o, FALSE, {}, d_call, 0, 0)

Regenerate ==
    \E o \in SessionOptions, d_call \in 0..1 :
        Script("k1", Mat(0, 1, MinChars, 0), NoFile, o, TRUE,
               ExportResponses, d_call, 0, 0)

NextExport == Rerender \/ Regenerate

SpecExport == Init /\ [][NextExport]_vars
(***************************************************************************)
(* What the claims are stated with.  These are computed on their own, not  *)
(* through the operators above.                                            *)
(***************************************************************************)
\* The number of characters from the first to the last non-whitespace one.
TrimmedLength(s) ==
    LET solid(i) == s[i] \notin {" ", "\n", "\t"}
    IN  IF \A i \in 1..Len(s) : ~solid(i) THEN 0
        ELSE (CHOOSE i \in 1..Len(s) : solid(i) /\ \A j \in (i + 1)..Len(s) : ~solid(j))
             - (CHOOSE i \in 1..Len(s) : solid(i) /\ \A j \in 1..(i - 1) : ~solid(j)) + 1

\* The number of whitespace-delimited tokens: the places where one starts.
TokenCount(s) ==
    Cardinality({i \in 1..Len(s) :
                    /\ s[i] \notin {" ", "\n", "\t"}
                    /\ (i = 1 \/ s[i - 1] \in {" ", "\n", "\t"})})

Classification(n) ==
    IF n < 100 THEN "TooShort" ELSE IF n < 200 THEN "Short" ELSE "Sufficient"

FailureKinds == {"auth", "quota", "network", "malformed"}

\* C1: the stored study guide changes only in a run whose remote call
\* returned an answer, and then it is that answer's first completion text;
\* a run whose call failed (auth, quota, network, malformed answer, answer
\* without choices) leaves the stored guide as it was.
C1_StoreChangesOnlyOnSuccess ==
    [][ /\ study_guide' # study_guide =>
              /\ Len(issued') = 1
              /\ response'.kind = "ok"
              /\ response'.choices # <<>>
              /\ study_guide' = response'.choices[1]
        /\ (issued' # <<>> /\ (response'.kind \in FailureKinds \/ response'.choices = <<>>))
              => study_guide' = study_guide
      ]_vars

\* C1 witness: a call failed after an earlier success and the guide is kept.
C1_FailureAfterSuccess ==
    /\ study_guide = "guide1"
    /\ issued # <<>>
    /\ response.kind \in FailureKinds
    /\ error = "GenerationError"

\* C3: a click on generate while no credential is stored ends with
\* MissingCredential: nothing is compiled, no request is issued and the
\* stored guide is unchanged.
C3_MissingCredential ==
    [][ (generate_button' /\ (api_key' = None \/ api_key' = "")) =>
              /\ error' = "MissingCredential"
              /\ prompt' = <<>>
              /\ issued' = <<>>
              /\ num_requests' = num_requests
              /\ study_guide' = study_guide
      ]_vars

\* C3 witness: after a MissingCredential error, a later attempt with a
\* credential succeeded.
C3_RetrySucceeds ==
    /\ missing_seen
    /\ generate_button
    /\ error = None
    /\ Len(issued) = 1
    /\ study_guide \in {"guide1", "guide2"}

\* C8: a run issues one request when it was started by the generate button
\* with a credential stored and trimmed material of at least 50 characters,
\* and none otherwise; so requests never outnumber the clicks on generate.
C8_OneRequestPerTrigger ==
    [][ /\ Len(issued') =
              IF /\ generate_button'
                 /\ api_key' \notin {None, ""}
                 /\ TrimmedLength(study_material') >= 50
              THEN 1 ELSE 0
        /\ num_requests' = num_requests + Len(issued')
        /\ num_triggers' = num_triggers + (IF generate_button' THEN 1 ELSE 0)
        /\ num_requests' <= num_triggers'
      ]_vars

\* C8 witness: two clicks, one stopped by a gate, the other a failed call
\* that was sent once.
C8_FailureNotRetried ==
    /\ num_triggers = 2
    /\ num_requests = 1
    /\ error = "GenerationError"
    /\ Len(issued) = 1

\* C10: a stored non-empty credential stays non-empty; it changes only to
\* the non-empty value the user submits; an empty field leaves it as it
\* was; every request carries the credential stored at the time of the call.
C10_CredentialKept ==
    [][ /\ api_key \notin {None, ""} => api_key' \notin {None, ""}
        /\ api_key' # api_key => (api_key_input' # "" /\ api_key' = api_key_input')
        /\ api_key_input' = "" => api_key' = api_key
        /\ \A i \in 1..Len(issued') : issued'[i].api_key = api_key'
      ]_vars

\* C10 witness: a request made with the stored credential while the field
\* was submitted empty.
C10_CallWithStoredKey ==
    /\ api_key_input = ""
    /\ api_key = "k2"
    /\ Len(issued) = 1
    /\ issued[1].api_key = "k2"

\* C2: with a credential stored, a click on generate is rejected with
\* InsufficientInput, before the prompt is compiled and before any request,
\* exactly when the material's trimmed length is below 50 characters.
C2_LengthGate ==
    (ran /\ generate_button /\ api_key \notin {None, ""}) =>
        IF TrimmedLength(study_material) < 50
        THEN error = "InsufficientInput" /\ prompt = <<>> /\ issued = <<>>
        ELSE error # "InsufficientInput" /\ prompt # <<>> /\ Len(issued) = 1

\* C2 witness: padded material of exactly 50 trimmed characters, classified
\* TooShort by its word count, passes the gate.
C2_FiftyPasses ==
    /\ generate_button
    /\ TrimmedLength(study_material) = 50
    /\ Len(study_material) > 50
    /\ advisory = "TooShort"
    /\ Len(issued) = 1

\* Generation is not blocked by the advisory: TooShort or Short material of
\* at least 50 trimmed characters goes to the remote call.
AdvisoryDoesNotBlock ==
    (/\ generate_button
     /\ api_key \notin {None, ""}
     /\ TokenCount(study_material) < 200
     /\ TrimmedLength(study_material) >= 50) => Len(issued) = 1

\* C7 as claimed: every material is classified by its word count, under 100
\* words TooShort, 100 to 199 Short, 200 or more Sufficient, and the
\* classification never blocks generation.
C7_EveryMaterialClassified ==
    (ran /\ error # "DecodeError") =>
        /\ advisory = Classification(TokenCount(study_material))
        /\ AdvisoryDoesNotBlock

\* C7 as amended: every non-empty material is classified by its word count,
\* under 100 words TooShort, 100 to 199 Short, 200 or more Sufficient, and
\* the classification never blocks generation.
C7_NonEmptyMaterialClassified ==
    (ran /\ error # "DecodeError") =>
        /\ study_material # <<>> =>
               advisory = Classification(TokenCount(study_material))
        /\ AdvisoryDoesNotBlock

\* C7 witness: material of 100 words is classified Short and goes to the
\* remote call.
C7_ShortProceeds ==
    /\ TokenCount(study_material) = 100
    /\ advisory = "Short"
    /\ generate_button
    /\ Len(issued) = 1

\* The lines of p after the line header and before the blank line that
\* precedes the line closing.
BulletBlock(p, header, closing) ==
    LET h == CHOOSE i \in 1..Len(p) : p[i] = header
        e == CHOOSE i \in 1..Len(p) : p[i] = closing
    IN  SubSeq(p, h + 1, e - 2)

EnabledBullets(o, mcq, short, essay) ==
    (IF o.include_mcq THEN <<mcq>> ELSE <<>>)
    \o (IF o.include_short THEN <<short>> ELSE <<>>)
    \o (IF o.include_essay THEN <<essay>> ELSE <<>>)

\* C4: in the Comprehensive and the Practice Questions Focus prompt the
\* lines under the question header are exactly the bullets of the enabled
\* question types: a disabled type leaves no line, blank or otherwise.
C4_DisabledTypesLeaveNoLine ==
    prompt # <<>> =>
        /\ options.guide_type = Comprehensive =>
               BulletBlock(prompt, ComprehensiveHeader(options),
                           "6. **STUDY TIPS** - Memory aids, mnemonics, and connections to help remember the material")
                 = EnabledBullets(options, ComprehensiveMcq, ComprehensiveShort,
                                  ComprehensiveEssay)
        /\ options.guide_type = QuestionsFocus =>
               BulletBlock(prompt, QuestionsHeader(options),
                           "Include a variety of difficulty levels and ensure questions cover all major concepts.")
                 = EnabledBullets(options, QuestionsMcq, QuestionsShort, QuestionsEssay)

ExpectedPhrase(o) ==
    CASE o.include_mcq /\ o.include_short /\ o.include_essay ->
             "multiple choice questions, short answer questions, essay questions"
      [] o.include_mcq /\ o.include_short /\ ~o.include_essay ->
             "multiple choice questions, short answer questions"
      [] o.include_mcq /\ ~o.include_short /\ o.include_essay ->
             "multiple choice questions, essay questions"
      [] o.include_mcq /\ ~o.include_short /\ ~o.include_essay ->
             "multiple choice questions"
      [] ~o.include_mcq /\ o.include_short /\ o.include_essay ->
             "short answer questions, essay questions"
      [] ~o.include_mcq /\ o.include_short /\ ~o.include_essay ->
             "short answer questions"
      [] ~o.include_mcq /\ ~o.include_short /\ o.include_essay ->
             "essay questions"
      [] ~o.include_mcq /\ ~o.include_short /\ ~o.include_essay ->
             "practice questions"

BulletLines ==
    {ComprehensiveMcq, ComprehensiveShort, ComprehensiveEssay,
     QuestionsMcq, QuestionsShort, QuestionsEssay}

\* C5: the question-type phrase a prompt carries is the comma-separated list
\* of the enabled labels in the order multiple choice, short answer, essay;
\* with no type enabled it is "practice questions" and the prompt has no
\* type-specific bullet line.
C5_QuestionTypePhrase ==
    prompt # <<>> =>
        /\ options.guide_type = Comprehensive =>
               ("5. **PRACTICE QUESTIONS** - Create " \o ToString(options.num_questions)
                    \o " " \o ExpectedPhrase(options) \o ":") \in Range(prompt)
        /\ options.guide_type = QuestionsFocus =>
               ("Generate " \o ExpectedPhrase(options) \o ":") \in Range(prompt)
        /\ (~options.include_mcq /\ ~options.include_short /\ ~options.include_essay)
               => Range(prompt) \cap BulletLines = {}

\* C5 witness: a Practice Questions Focus prompt with no type enabled.
C5_FallbackPhrase ==
    /\ options.guide_type = QuestionsFocus
    /\ ~options.include_mcq /\ ~options.include_short /\ ~options.include_essay
    /\ "Generate practice questions:" \in Range(prompt)

\* The lines that tell one template family from the others.
FamilyMarkers(g) ==
    CASE g = Comprehensive ->
             {"Generate a comprehensive study guide with these sections:",
              "1. **OVERVIEW** - Brief summary of the main topic and its importance",
              "6. **STUDY TIPS** - Memory aids, mnemonics, and connections to help remember the material",
              "7. **SUMMARY** - Quick review of the most critical points"}
      [] g = SummaryOnly ->
             {"Provide:", "1. Main topic overview", "4. Quick review summary"}
      [] g = DefinitionsFocus ->
             {"Create a comprehensive definitions guide with:", "4. Related terms",
              "Organize alphabetically and use clear markdown formatting."}
      [] g = QuestionsFocus ->
             {"Include a variety of difficulty levels and ensure questions cover all major concepts.",
              "Format with clear markdown and proper numbering."}

QuestionLines(o) ==
    BulletLines \cup {ComprehensiveHeader(o), QuestionsTitle(o), QuestionsHeader(o)}

\* C6: a prompt carries the marker lines of the family of its guide type and
\* none of the other three families'; a Summary Only or Definitions Focus
\* prompt has no question line whatever the question options are.
C6_OneTemplateFamily ==
    prompt # <<>> =>
        /\ \A g \in GuideTypes :
               IF g = options.guide_type
               THEN FamilyMarkers(g) \subseteq Range(prompt)
               ELSE FamilyMarkers(g) \cap Range(prompt) = {}
        /\ options.guide_type \in {SummaryOnly, DefinitionsFocus} =>
               Range(prompt) \cap QuestionLines(options) = {}

\* C6 witness: a Definitions Focus prompt compiled with all question types
\* enabled and the largest question count.
C6_DefinitionsWithQuestionOptions ==
    /\ options.guide_type = DefinitionsFocus
    /\ options.include_mcq /\ options.include_short /\ options.include_essay
    /\ options.num_questions = 20
    /\ "Create a comprehensive definitions guide with:" \in Range(prompt)

\* C9: while a guide is stored, the two download files are named
\* study_guide_<T>.md and study_guide_<T>.txt with one stamp T, the time of
\* the generation that produced the stored guide.
C9_StampIsGenerationTime ==
    (study_guide \notin {None, ""}) =>
        /\ md_name = "study_guide_" \o Strftime(gen_time) \o ".md"
        /\ txt_name = "study_guide_" \o Strftime(gen_time) \o ".txt"
====
